---- MODULE Spec2Model ----
(***************************************************************************)
(* The session and playback state machine of App (the live-translation     *)
(* front end): startSession / stopSession, the callbacks of the live       *)
(* connection (onopen, onmessage, onerror, onclose) and the playback       *)
(* scheduler kept in nextStartTimeRef / sourcesRef.                        *)
(*                                                                         *)
(* An async function is a sequence of atomic steps, one per stretch of     *)
(* code between two awaits; between two steps of one handler any other     *)
(* handler, event or clock tick may run.                                   *)
(***************************************************************************)
EXTENDS Integers, Sequences, FiniteSets, TLC

\* ------------------------------------------------------------------ bounds
MaxSessions == 1        \* startSession calls in one behaviour
MaxAttempts == 2        \* startSession calls in a behaviour of overlapping attempts
MaxMsgs     == 3        \* inbound messages in one behaviour
MaxTime     == 2        \* horizon of every AudioContext's currentTime
MaxDur      == 2        \* longest decoded buffer, in clock units
MaxTicks    == 3        \* onaudioprocess events in one behaviour
MaxFrames   == 2        \* frames drawn in one behaviour
NumBins     == 2        \* analyser.frequencyBinCount of the model's analyser
VizMsgs     == 1        \* chunks played while the visualizer is watched
MaxSamples  == 4        \* longest sample buffer enumerated for downsample
MaxBytes    == 4        \* longest byte buffer enumerated for audioService
MaxChannels == 2        \* most channels asked of decodeAudioData

Sessions == 1..(IF MaxAttempts > MaxSessions THEN MaxAttempts ELSE MaxSessions)
MsgIds   == 1..MaxMsgs

VARIABLES
    status,               \* 'idle' | 'connecting' | 'listening' | 'error'
    isRecording,
    errorMessage,         \* "" or a tag for the message shown
    mainAudioContextRef,  \* 0 = null, else the context of startSession call k
    streamRef,            \* 0 = null, else the stream of call k
    sessionRef,           \* 0 = null, else the session of call k
    analyserRef,          \* 0 = null, else the analyser of call k
    nextStartTimeRef,     \* the playback cursor
    sourcesRef,           \* the active source set: indices into playLog
    currentInputRef,      \* transcript accumulators: sequences of tokens
    currentOutputRef,
    transcripts,          \* the history list
    startPc,              \* per startSession call: where the async function is
    ctxState,             \* per call: state of the AudioContext it created
    clock,                \* per call: currentTime of that context
    stream,               \* per call: "none" | "live" | "stopped"
    conn,                 \* per call: "none" | "connecting" | "open" | "closing" | "closed"
    nStarted,             \* startSession calls so far
    handlers,             \* per message: the onmessage invocation in flight
    nRecv,                \* messages received so far
    playLog,              \* history: the last reset and the sources started since
    lastOp,               \* history: kind of the last step
    stopRuns,             \* history: stopSession runs in a row (capped at 2)
    stopAt,               \* history: -1, or nStarted at the last stopSession while
                          \* no later session has scheduled since
    isSecureContext,      \* window.isSecureContext, fixed for the page
    scriptProcessor,      \* per call: onopen created the capture processor
    nTicks,               \* per call: onaudioprocess events so far
    pendingSends,         \* per call: ticks waiting in sessionPromise.then
    outbox,               \* per call: messages given to session.sendRealtimeInput
    vizProps,             \* visualizer: props of the last render
    framePending,         \* visualizer: a requestAnimationFrame(draw) is pending
    canvas,               \* visualizer: what the canvas shows
    nFrames,              \* visualizer: frames drawn so far
    has2d,                \* visualizer: canvas.getContext('2d') is not null
    rawBytes,             \* audioService: a byte buffer given to it
    numChannels,          \* audioService: the channel count given to decodeAudioData
    transportText,        \* audioService: encodeAudio's result, once called
    decodedBytes,         \* audioService: decodeAudio's result, once called
    audioBuffer,          \* audioService: decodeAudioData's result, once called
    decodeFailures,       \* history: Len(playLog) at each failed decode, in order
    activeRole,           \* 'Professor' | 'Student': the role selected
    activeRoleRef,        \* the ref the activeRole effect keeps equal to it
    sessionRole,          \* per call: the role given to getRoleInstruction
    entryRoles,           \* the role field of each entry of transcripts
    storedHistory,        \* localStorage item 'edutranslate_history'
    historyDirty,         \* the history persistence effect is due to run
    inputData,            \* audioService: the samples given to downsample
    inputRate,            \* audioService: the rate they were captured at
    downsampledData       \* audioService: downsample's result, once called

progVars == <<status, isRecording, mainAudioContextRef, streamRef, sessionRef,
              analyserRef, nextStartTimeRef, sourcesRef, currentInputRef, currentOutputRef,
              transcripts>>
envVars  == <<startPc, ctxState, clock, stream, conn, nStarted, handlers, nRecv,
              isSecureContext>>
histVars == <<playLog, lastOp, stopRuns, stopAt>>
capVars  == <<scriptProcessor, nTicks, pendingSends, outbox>>
vizVars  == <<vizProps, framePending, canvas, nFrames, has2d>>
appVars  == <<progVars, errorMessage, envVars, histVars>>
pureVars == <<rawBytes, numChannels, transportText, decodedBytes, audioBuffer>>
uiVars   == <<activeRole, activeRoleRef, sessionRole, entryRoles, storedHistory,
              historyDirty>>
convVars == <<inputData, inputRate, downsampledData>>
vars     == <<appVars, capVars, vizVars, pureVars, decodeFailures, uiVars, convVars>>

\* ----------------------------------------------------------------- helpers
Max(a, b) == IF a > b THEN a ELSE b
Min(a, b) == IF a < b THEN a ELSE b

\* String.prototype.trim() yields '' exactly when every character is white space.
Blank(t) == \A i \in 1..Len(t) : t[i] = " "

\* A LiveServerMessage, by the fields onmessage reads. dur = 0: no inlineData.
Msg(d, i, tc, it, ot) ==
    [dur |-> d, interrupted |-> i, turnComplete |-> tc, inText |-> it, outText |-> ot]

\* The messages of the playback runs: audio chunks and interruptions.
AudioShapes ==
    { Msg(d, FALSE, FALSE, <<>>, <<>>) : d \in 1..MaxDur }
    \cup { Msg(0, TRUE, FALSE, <<>>, <<>>),
           Msg(1, TRUE, FALSE, <<>>, <<>>) }

\* The messages of the transcript runs: fragments, turn ends, one audio chunk.
TextShapes ==
    { Msg(0, FALSE, FALSE, <<"x">>, <<>>),
      Msg(0, FALSE, TRUE, <<>>, <<"y">>),
      Msg(1, FALSE, FALSE, <<>>, <<>>) }

NoMsg == Msg(0, FALSE, FALSE, <<>>, <<>>)

\* The text of the fragment that the n-th message carries, when it carries one.
Fragments == << "a", "b", "c", "d", "e", "f" >>

\* The n-th message of a run of turns: a fragment, a blank fragment, a turn
\* end with or without a fragment, an interruption, a chunk with a fragment.
TurnShapes(n) ==
    { Msg(0, FALSE, FALSE, << Fragments[n] >>, <<>>),
      Msg(0, FALSE, FALSE, << " " >>, <<>>),
      Msg(0, FALSE, TRUE, <<>>, <<>>),
      Msg(0, FALSE, TRUE, <<>>, << Fragments[n] >>),
      Msg(0, TRUE, FALSE, <<>>, <<>>),
      Msg(1, FALSE, FALSE, << Fragments[n] >>, <<>>) }

\* An onmessage invocation: pc is "none" (not running), "resume" (at await
\* currentCtx.resume()) or "decode" (at await decodeAudioData(...)).
\* sup: an 'interrupted' message was handled since this one was received.
NoHandler == [pc |-> "none", sess |-> 0, ctx |-> 0, msg |-> NoMsg, sup |-> FALSE]

\* playLog entries: a started source ("chunk") or, first in the log, the reset
\* ("interrupt", "stop") the log starts from.
Chunk(m, s, c, cur, d, at, sup) ==
    [kind |-> "chunk", msg |-> m, sess |-> s, ctx |-> c, cursor0 |-> cur,
     start |-> cur, dur |-> d, at |-> at, st |-> "playing", sup |-> sup,
     nstopped |-> 0]
\* A reset of kind k that force-stopped n playing sources.
Mark(k, n) ==
    [kind |-> k, msg |-> 0, sess |-> 0, ctx |-> 0, cursor0 |-> 0,
     start |-> 0, dur |-> 0, at |-> 0, st |-> "none", sup |-> FALSE,
     nstopped |-> n]

IsChunk(i) == playLog[i].kind = "chunk"
Chunks == { i \in 1..Len(playLog) : IsChunk(i) }

\* A set that is cleared with its sources left playing.
StopNone(log, S) == log

\* source.stop() on every member of the set S.
StopAll(log, S) ==
    [i \in 1..Len(log) |-> IF i \in S THEN [log[i] EXCEPT !.st = "stopped"] ELSE log[i]]

Playing(e) == e.st = "playing"

\* A reset restarts the log: what is kept of the old one, old, is how many
\* sources the reset stopped and, of the log as the reset left it, now, the
\* sources that still play, if any was left out of the stop.
LogReset(old, now, k) ==
    << Mark(k, Cardinality({ i \in 1..Len(old) :
                               Playing(old[i]) /\ ~Playing(now[i]) })) >>
    \o SelectSeq(now, Playing)

AppInit ==
    /\ status = "idle"
    /\ isRecording = FALSE
    /\ errorMessage = ""
    /\ mainAudioContextRef = 0
    /\ streamRef = 0
    /\ sessionRef = 0
    /\ analyserRef = 0
    /\ nextStartTimeRef = 0
    /\ sourcesRef = {}
    /\ currentInputRef = <<>>
    /\ currentOutputRef = <<>>
    /\ transcripts = <<>>
    /\ startPc = [k \in Sessions |-> "none"]
    /\ ctxState = [k \in Sessions |-> "none"]
    /\ clock = [k \in Sessions |-> 0]
    /\ stream = [k \in Sessions |-> "none"]
    /\ conn = [k \in Sessions |-> "none"]
    /\ nStarted = 0
    /\ handlers = [m \in MsgIds |-> NoHandler]
    /\ nRecv = 0
    /\ playLog = <<>>
    /\ lastOp = "other"
    /\ stopRuns = 0
    /\ stopAt = -1
    /\ isSecureContext \in BOOLEAN

\* A canvas nothing was drawn on.
Blank2d == [drawn |-> FALSE, bars |-> <<>>]

\* No processor yet, nothing captured or sent.
CapInit ==
    /\ scriptProcessor = [k \in Sessions |-> FALSE]
    /\ nTicks = [k \in Sessions |-> 0]
    /\ pendingSends = [k \in Sessions |-> <<>>]
    /\ outbox = [k \in Sessions |-> <<>>]

\* The visualizer as mounted by App's first render: analyserRef.current is
\* null and isRecording false, so its effect returns at once.
VizInit ==
    /\ vizProps = [analyser |-> 0, isActive |-> FALSE]
    /\ framePending = FALSE
    /\ canvas = Blank2d
    /\ nFrames = 0

\* The outcome of a call: not made yet, a value returned, or an error thrown.
NotCalled == [called |-> FALSE, error |-> "", value |-> <<>>]
Value(v)  == [called |-> TRUE, error |-> "", value |-> v]
Thrown(e) == [called |-> TRUE, error |-> e, value |-> <<>>]

\* audioService before any call, to be given the buffer b and c channels.
PureInit(b, c) ==
    /\ rawBytes = b
    /\ numChannels = c
    /\ transportText = NotCalled
    /\ decodedBytes = NotCalled
    /\ audioBuffer = NotCalled

\* What localStorage holds under a key: nothing (getItem gives null), or a
\* string: the empty one, one JSON.parse refuses, or the JSON text of a list.
NoItem       == [kind |-> "null", entries |-> <<>>]
EmptyString  == [kind |-> "empty", entries |-> <<>>]
Unparseable  == [kind |-> "garbage", entries |-> <<>>]
JsonText(es) == [kind |-> "json", entries |-> es]

\* The role selected and the history as App's first render finds them: the
\* stored role is r, the stored history is item, which loads as the empty
\* list; the effects of the first commit are still to run.
UiInit(r, item) ==
    /\ activeRole = r
    /\ activeRoleRef = r
    /\ sessionRole = [k \in Sessions |-> "none"]
    /\ entryRoles = <<>>
    /\ storedHistory = item
    /\ historyDirty = TRUE

\* downsample before any call, to be given the samples x captured at rate r.
ConvInit(x, r) ==
    /\ inputData = x
    /\ inputRate = r
    /\ downsampledData = NotCalled

Init ==
    /\ AppInit
    /\ CapInit
    /\ VizInit
    /\ PureInit(<<>>, 1)
    /\ has2d = TRUE
    /\ decodeFailures = <<>>
    /\ UiInit("Professor", NoItem)
    /\ ConvInit(<<>>, 16000)

\* ------------------------------------------------------------ saveToHistory
\* An accumulator that saveToHistory leaves as it was.
FlushedRefKept(t) == t

\* The accumulators after saveToHistory (currentInputRef.current = '').
FlushedRef(t) == <<>>

\* setTranscripts(prev => [...prev, entry]) when either side is non-blank.
SavedTranscripts(ts, input, output) ==
    IF ~Blank(input) \/ ~Blank(output)
    THEN Append(ts, [text |-> input, translation |-> output])
    ELSE ts

SaveToHistory(input, output) ==
    /\ transcripts' = SavedTranscripts(transcripts, input, output)
    /\ currentInputRef' = FlushedRef(input)
    /\ currentOutputRef' = FlushedRef(output)

\* -------------------------------------------------------------- stopSession
\* session.close(): an open or connecting socket starts closing; onclose follows.
CloseConn(c) == IF c \in {"connecting", "open"} THEN "closing" ELSE c
\* A context that close() leaves as it was.
CtxLeftOpen(c) == c

\* ctx.close(): asynchronous; a context already closing or closed stays so.
CloseCtx(c) == IF c \in {"suspended", "running"} THEN "closing" ELSE c

\* The cursor stopSession and the interrupted branch leave.
ResetCursor(cur) == 0

\* stopSession(), called with the connection states as its caller left them.
StopSession(connNow) ==
    /\ SaveToHistory(currentInputRef, currentOutputRef)
    /\ isRecording' = FALSE
    /\ status' = "idle"
    /\ conn' = IF sessionRef # 0
               THEN [connNow EXCEPT ![sessionRef] = CloseConn(@)] ELSE connNow
    /\ sessionRef' = 0
    /\ stream' = IF streamRef # 0
                 THEN [stream EXCEPT ![streamRef] = "stopped"] ELSE stream
    /\ streamRef' = 0
    /\ ctxState' = IF mainAudioContextRef # 0
                   THEN [ctxState EXCEPT ![mainAudioContextRef] = CloseCtx(@)]
                   ELSE ctxState
    /\ mainAudioContextRef' = 0
    /\ analyserRef' = 0
    /\ playLog' = LogReset(playLog, StopAll(playLog, sourcesRef), "stop")
    /\ sourcesRef' = {}
    /\ nextStartTimeRef' = ResetCursor(nextStartTimeRef)
    /\ stopRuns' = Min(stopRuns + 1, 2)
    /\ stopAt' = nStarted
    /\ UNCHANGED <<startPc, clock, nStarted, handlers, nRecv, isSecureContext>>

\* The Stop Session button, rendered while isRecording.
UserStop ==
    /\ isRecording
    /\ StopSession(conn)
    /\ lastOp' = "stop"
    /\ UNCHANGED errorMessage

\* callbacks.onerror of session k: a transport error; the socket then closes.
OnError(k) ==
    /\ conn[k] \in {"connecting", "open"}
    /\ errorMessage' = "live"
    /\ StopSession([conn EXCEPT ![k] = "closing"])
    /\ lastOp' = "error"

\* callbacks.onclose of session k: the server closed, or a close is completing.
OnClose(k) ==
    /\ conn[k] \in {"open", "closing"}
    /\ StopSession([conn EXCEPT ![k] = "closed"])
    /\ lastOp' = "close"
    /\ UNCHANGED errorMessage

\* A step that is not a run of stopSession.
NotTeardown == lastOp' = "other" /\ stopRuns' = 0

\* ------------------------------------------------------------------ capture
\* The message of capture tick n as session.sendRealtimeInput is given it, on
\* a connection in state c; deferred: the send waited for the session promise.
\* (The payload, encodeAudio of the downsampled samples, is the tick's own.)
OutboundAudio(n, c, deferred) ==
    [tick |-> n, mimeType |-> "audio/pcm;rate=16000", conn |-> c,
     deferred |-> deferred]

\* Queued sends run newest first.
FlushNewestFirst(out, pending, c) ==
    out \o [i \in 1..Len(pending) |->
               OutboundAudio(pending[Len(pending) + 1 - i], c, TRUE)]

\* The .then callbacks queued on the session promise run in the order queued.
FlushSends(out, pending, c) ==
    out \o [i \in 1..Len(pending) |-> OutboundAudio(pending[i], c, TRUE)]

\* scriptProcessor.onaudioprocess of session k: one buffer of 4096 samples is
\* downsampled, encoded and given to sessionPromise.then, which sends it at
\* once when the promise has resolved and keeps it until then otherwise.
CaptureTick(k) ==
    /\ scriptProcessor[k]
    /\ ctxState[k] \in {"running", "closing"}
    /\ nTicks[k] < MaxTicks
    /\ nTicks' = [nTicks EXCEPT ![k] = @ + 1]
    /\ IF startPc[k] = "done"
       THEN /\ outbox' = [outbox EXCEPT ![k] =
                             Append(@, OutboundAudio(nTicks[k] + 1, conn[k], FALSE))]
            /\ UNCHANGED pendingSends
       ELSE /\ pendingSends' = [pendingSends EXCEPT ![k] = Append(@, nTicks[k] + 1)]
            /\ UNCHANGED outbox
    /\ NotTeardown
    /\ UNCHANGED <<progVars, errorMessage, envVars, playLog, stopAt,
                   scriptProcessor, vizVars, pureVars, decodeFailures>>
    /\ UNCHANGED <<uiVars, convVars>>

\* ------------------------------------------------------------- startSession

\* A startSession that sets the status before looking at the secure context.
StartSessionStatusFirst(cap) ==
    /\ ~isRecording
    /\ IF ~isSecureContext
       THEN /\ errorMessage' = "https"
            /\ status' = "connecting"
            /\ UNCHANGED <<isRecording, mainAudioContextRef, streamRef,
                           sessionRef, analyserRef, nextStartTimeRef,
                           sourcesRef, currentInputRef, currentOutputRef,
                           transcripts, envVars, playLog, stopAt>>
       ELSE /\ nStarted < cap
            /\ LET k == nStarted + 1 IN
               /\ nStarted' = k
               /\ status' = "connecting"
               /\ errorMessage' = ""
               /\ ctxState' = [ctxState EXCEPT ![k] = "suspended"]
               /\ mainAudioContextRef' = k
               /\ startPc' = [startPc EXCEPT ![k] = "resume"]
            /\ UNCHANGED <<isRecording, streamRef, sessionRef, analyserRef,
                           nextStartTimeRef, sourcesRef, currentInputRef,
                           currentOutputRef, transcripts, clock, stream, conn,
                           handlers, nRecv, isSecureContext, playLog, stopAt>>
    /\ NotTeardown

\* The Connect button, rendered while not isRecording: startSession up to its
\* first await (ctx.resume()). At most cap calls are made.
StartSession(cap) ==
    /\ ~isRecording
    /\ IF ~isSecureContext
       THEN /\ errorMessage' = "https"
            /\ UNCHANGED <<progVars, envVars, playLog, stopAt>>
       ELSE /\ nStarted < cap
            /\ LET k == nStarted + 1 IN
               /\ nStarted' = k
               /\ status' = "connecting"
               /\ errorMessage' = ""
               /\ ctxState' = [ctxState EXCEPT ![k] = "suspended"]
               /\ mainAudioContextRef' = k
               /\ startPc' = [startPc EXCEPT ![k] = "resume"]
            /\ UNCHANGED <<isRecording, streamRef, sessionRef, analyserRef,
                           nextStartTimeRef, sourcesRef, currentInputRef,
                           currentOutputRef, transcripts, clock, stream, conn,
                           handlers, nRecv, isSecureContext, playLog, stopAt>>
    /\ NotTeardown

\* await ctx.resume() returns: the context runs. On a context closed meanwhile
\* the promise rejects and the outer catch reports it.
StartResumed(k) ==
    /\ startPc[k] = "resume"
    /\ IF ctxState[k] = "suspended"
       THEN /\ ctxState' = [ctxState EXCEPT ![k] = "running"]
            /\ startPc' = [startPc EXCEPT ![k] = "mic"]
            /\ UNCHANGED <<status, errorMessage>>
       ELSE /\ startPc' = [startPc EXCEPT ![k] = "done"]
            /\ errorMessage' = "init"
            /\ status' = "error"
            /\ UNCHANGED ctxState
    /\ UNCHANGED <<isRecording, mainAudioContextRef, streamRef, sessionRef,
                   analyserRef, nextStartTimeRef, sourcesRef, currentInputRef,
                   currentOutputRef, transcripts, clock, stream, conn, nStarted,
                   handlers, nRecv, isSecureContext, playLog, stopAt>>
    /\ NotTeardown

\* getUserMedia resolves: the stream and analyser refs are set and
\* ai.live.connect is called; the function waits for the session promise.
MicGranted(k) ==
    /\ startPc[k] = "mic"
    /\ stream' = [stream EXCEPT ![k] = "live"]
    /\ streamRef' = k
    /\ analyserRef' = k
    /\ conn' = [conn EXCEPT ![k] = "connecting"]
    /\ startPc' = [startPc EXCEPT ![k] = "connect"]
    /\ UNCHANGED <<status, isRecording, errorMessage, mainAudioContextRef,
                   sessionRef, nextStartTimeRef, sourcesRef, currentInputRef,
                   currentOutputRef, transcripts, ctxState, clock, nStarted,
                   handlers, nRecv, isSecureContext, playLog, stopAt>>
    /\ NotTeardown

\* getUserMedia rejects: message, status 'error', ctx.close(), return.
MicDenied(k) ==
    /\ startPc[k] = "mic"
    /\ errorMessage' = "mic"
    /\ status' = "error"
    /\ ctxState' = [ctxState EXCEPT ![k] = CloseCtx(@)]
    /\ startPc' = [startPc EXCEPT ![k] = "done"]
    /\ UNCHANGED <<isRecording, mainAudioContextRef, streamRef, sessionRef,
                   analyserRef, nextStartTimeRef, sourcesRef, currentInputRef,
                   currentOutputRef, transcripts, clock, stream, conn, nStarted,
                   handlers, nRecv, isSecureContext, playLog, stopAt>>
    /\ NotTeardown

\* callbacks.onopen of session k; the session promise is then resolved.
OnOpen(k) ==
    /\ conn[k] = "connecting"
    /\ startPc[k] = "connect"
    /\ conn' = [conn EXCEPT ![k] = "open"]
    /\ status' = "listening"
    /\ isRecording' = TRUE
    /\ startPc' = [startPc EXCEPT ![k] = "opened"]
    /\ scriptProcessor' = [scriptProcessor EXCEPT ![k] = TRUE]
    /\ UNCHANGED <<nTicks, pendingSends, outbox, vizVars, pureVars, decodeFailures>>
    /\ UNCHANGED <<uiVars, convVars>>
    /\ UNCHANGED <<errorMessage, mainAudioContextRef, streamRef, sessionRef,
                   analyserRef, nextStartTimeRef, sourcesRef, currentInputRef,
                   currentOutputRef, transcripts, ctxState, clock, stream,
                   nStarted, handlers, nRecv, isSecureContext, playLog, stopAt>>
    /\ NotTeardown

\* The session promise resolves: sessionRef.current = await sessionPromise
\* (338) continues, then the sends that onaudioprocess queued on the promise
\* (289) run in the order they were queued.
ConnectResolved(k) ==
    /\ startPc[k] = "opened"
    /\ sessionRef' = k
    /\ startPc' = [startPc EXCEPT ![k] = "done"]
    /\ outbox' = [outbox EXCEPT ![k] = FlushSends(@, pendingSends[k], conn[k])]
    /\ pendingSends' = [pendingSends EXCEPT ![k] = <<>>]
    /\ UNCHANGED <<scriptProcessor, nTicks, vizVars, pureVars, decodeFailures>>
    /\ UNCHANGED <<uiVars, convVars>>
    /\ UNCHANGED <<status, isRecording, errorMessage, mainAudioContextRef,
                   streamRef, analyserRef, nextStartTimeRef, sourcesRef,
                   currentInputRef, currentOutputRef, transcripts, ctxState,
                   clock, stream, conn, nStarted, handlers, nRecv,
                   isSecureContext, playLog, stopAt>>
    /\ NotTeardown

\* The session promise rejects before the connection opened: the catch branch.
ConnectFailed(k) ==
    /\ startPc[k] = "connect"
    /\ conn[k] # "open"
    /\ conn' = [conn EXCEPT ![k] = IF @ = "connecting" THEN "closed" ELSE @]
    /\ errorMessage' = "init"
    /\ status' = "error"
    /\ startPc' = [startPc EXCEPT ![k] = "done"]
    /\ UNCHANGED <<isRecording, mainAudioContextRef, streamRef, sessionRef,
                   analyserRef, nextStartTimeRef, sourcesRef, currentInputRef,
                   currentOutputRef, transcripts, ctxState, clock, stream,
                   nStarted, handlers, nRecv, isSecureContext, playLog, stopAt>>
    /\ NotTeardown

\* ---------------------------------------------------------------- onmessage
\* A cursor set to the clock, without the max.
SyncCursorNow(cur, now) == now

\* nextStartTimeRef.current = Math.max(nextStartTimeRef.current, ctx.currentTime)
SyncCursor(cur, now) == Max(cur, now)

\* A cursor that is not advanced past the buffer just started.
AdvanceCursorNone(cur, d) == cur

\* nextStartTimeRef.current += buffer.duration
AdvanceCursor(cur, d) == cur + d

\* A session started after the last stopSession schedules: stopAt is cleared.
Scheduled(k) == IF stopAt # -1 /\ k > stopAt THEN -1 ELSE stopAt

\* The handlers left in flight when the one for message m returns; an
\* 'interrupted' just handled supersedes every handler still suspended.
Returned(m, interrupted) ==
    [n \in MsgIds |->
        IF n = m \/ handlers[n].pc = "none" THEN NoHandler
        ELSE IF interrupted THEN [handlers[n] EXCEPT !.sup = TRUE]
        ELSE handlers[n]]

\* The interrupted branch: stop every source, clear the set, reset the cursor.
Interrupted(log, set) ==
    LogReset(log, [i \in 1..Len(log) |-> [StopAll(log, set)[i] EXCEPT !.sup = TRUE]],
             "interrupt")

\* onmessage after its audio block, for message msg of handler m: the
\* transcription fragments, turnComplete, interrupted. log, set and cur are
\* the playback state as the audio block left it.
AfterAudio(m, msg, log, set, cur) ==
    /\ LET input  == currentInputRef \o msg.inText
           output == currentOutputRef \o msg.outText
       IN  IF msg.turnComplete
           THEN SaveToHistory(input, output)
           ELSE /\ currentInputRef' = input
                /\ currentOutputRef' = output
                /\ UNCHANGED transcripts
    /\ IF msg.interrupted
       THEN /\ playLog' = Interrupted(log, set)
            /\ sourcesRef' = {}
            /\ nextStartTimeRef' = ResetCursor(cur)
            /\ lastOp' = "interrupt"
       ELSE /\ playLog' = log
            /\ sourcesRef' = set
            /\ nextStartTimeRef' = cur
            /\ lastOp' = "other"
    /\ handlers' = Returned(m, msg.interrupted)
    /\ stopRuns' = 0

\* A message of session k arrives and onmessage runs to its first await, or to
\* its end when it carries no audio or there is no audio context.
Receive(k, msg) ==
    /\ conn[k] = "open"
    /\ nRecv < MaxMsgs
    /\ nRecv' = nRecv + 1
    /\ LET m == nRecv + 1
           c == mainAudioContextRef
       IN  IF msg.dur > 0 /\ c # 0
           THEN /\ IF ctxState[c] = "suspended"
                   THEN /\ handlers' = [handlers EXCEPT ![m] =
                               [pc |-> "resume", sess |-> k, ctx |-> c,
                                msg |-> msg, sup |-> FALSE]]
                        /\ UNCHANGED <<nextStartTimeRef, stopAt>>
                   ELSE /\ handlers' = [handlers EXCEPT ![m] =
                               [pc |-> "decode", sess |-> k, ctx |-> c,
                                msg |-> msg, sup |-> FALSE]]
                        /\ nextStartTimeRef' = SyncCursor(nextStartTimeRef, clock[c])
                        /\ stopAt' = Scheduled(k)
                /\ NotTeardown
                /\ UNCHANGED <<sourcesRef, currentInputRef, currentOutputRef,
                               transcripts, playLog>>
           ELSE /\ AfterAudio(m, msg, playLog, sourcesRef, nextStartTimeRef)
                /\ UNCHANGED stopAt
    /\ UNCHANGED <<status, isRecording, errorMessage, mainAudioContextRef,
                   streamRef, sessionRef, analyserRef, startPc, ctxState, clock,
                   stream, conn, nStarted, isSecureContext>>

\* await currentCtx.resume() returns in handler m: the cursor is brought up to
\* the clock and decodeAudioData is called.
ResumeDone(m) ==
    /\ handlers[m].pc = "resume"
    /\ LET c == handlers[m].ctx IN
       /\ ctxState' = [ctxState EXCEPT ![c] = IF @ = "suspended" THEN "running" ELSE @]
       /\ nextStartTimeRef' = SyncCursor(nextStartTimeRef, clock[c])
    /\ handlers' = [handlers EXCEPT ![m].pc = "decode"]
    /\ stopAt' = Scheduled(handlers[m].sess)
    /\ NotTeardown
    /\ UNCHANGED <<status, isRecording, errorMessage, mainAudioContextRef,
                   streamRef, sessionRef, analyserRef, sourcesRef, currentInputRef,
                   currentOutputRef, transcripts, startPc, clock, stream, conn,
                   nStarted, nRecv, isSecureContext, playLog>>

\* resume() on a context that was closed meanwhile rejects: the handler ends there.
ResumeRejected(m) ==
    /\ handlers[m].pc = "resume"
    /\ ctxState[handlers[m].ctx] \in {"closing", "closed"}
    /\ handlers' = [handlers EXCEPT ![m] = NoHandler]
    /\ NotTeardown
    /\ UNCHANGED <<progVars, errorMessage, startPc, ctxState, clock, stream, conn,
                   nStarted, nRecv, isSecureContext, playLog, stopAt>>

\* await decodeAudioData(...) returns in handler m: the source is created,
\* started at the cursor and added to the set; the cursor advances; then the
\* rest of onmessage runs.
DecodeDone(m) ==
    /\ handlers[m].pc = "decode"
    /\ LET h   == handlers[m]
           d   == h.msg.dur
           log == Append(playLog, Chunk(m, h.sess, h.ctx, nextStartTimeRef, d,
                                        clock[h.ctx], h.sup))
       IN  AfterAudio(m, h.msg, log, sourcesRef \cup {Len(log)},
                AdvanceCursor(nextStartTimeRef, d))
    /\ stopAt' = Scheduled(handlers[m].sess)
    /\ UNCHANGED <<status, isRecording, errorMessage, mainAudioContextRef,
                   streamRef, sessionRef, analyserRef, startPc, ctxState, clock,
                   stream, conn, nStarted, nRecv, isSecureContext>>

\* createBufferSource on a closed context: builds that refuse it throw, and
\* the handler ends there.
CreateSourceThrows(m) ==
    /\ handlers[m].pc = "decode"
    /\ ctxState[handlers[m].ctx] = "closed"
    /\ handlers' = [handlers EXCEPT ![m] = NoHandler]
    /\ NotTeardown
    /\ UNCHANGED <<progVars, errorMessage, startPc, ctxState, clock, stream, conn,
                   nStarted, nRecv, isSecureContext, playLog, stopAt>>

\* await decodeAudioData(...) rejects in handler m (the payload is not whole
\* 16-bit frames): onmessage ends at line 307, nothing after it runs.
DecodeFailed(m) ==
    /\ handlers[m].pc = "decode"
    /\ handlers' = [handlers EXCEPT ![m] = NoHandler]
    /\ decodeFailures' = Append(decodeFailures, Len(playLog))
    /\ NotTeardown
    /\ UNCHANGED <<progVars, errorMessage, startPc, ctxState, clock, stream, conn,
                   nStarted, nRecv, isSecureContext, playLog, stopAt,
                   capVars, vizVars, pureVars>>
    /\ UNCHANGED <<uiVars, convVars>>

\* ------------------------------------------------------- the audio subsystem
\* When source i is heard to finish: it plays from start, or from the moment
\* start() was called when start is already past.
EndTime(e) == Max(e.start, e.at) + e.dur

\* A rendering context (running, or closing and not yet closed) advances.
Tick(c) ==
    /\ ctxState[c] \in {"running", "closing"}
    /\ clock[c] < MaxTime
    /\ clock' = [clock EXCEPT ![c] = @ + 1]
    /\ NotTeardown
    /\ UNCHANGED <<progVars, errorMessage, startPc, ctxState, stream, conn,
                   nStarted, handlers, nRecv, isSecureContext, playLog, stopAt>>

\* The 'ended' listener of source i: sourcesRef.current.delete(source).
\* (After stop() the listener finds the set already cleared: not modelled.)
Ended(i) ==
    /\ i \in Chunks
    /\ playLog[i].st = "playing"
    /\ clock[playLog[i].ctx] >= EndTime(playLog[i])
    /\ playLog' = [playLog EXCEPT ![i].st = "ended"]
    /\ sourcesRef' = sourcesRef \ {i}
    /\ NotTeardown
    /\ UNCHANGED <<status, isRecording, errorMessage, mainAudioContextRef,
                   streamRef, sessionRef, analyserRef, nextStartTimeRef,
                   currentInputRef, currentOutputRef, transcripts, envVars, stopAt>>

\* ctx.close() completes.
CloseDone(c) ==
    /\ ctxState[c] = "closing"
    /\ ctxState' = [ctxState EXCEPT ![c] = "closed"]
    /\ NotTeardown
    /\ UNCHANGED <<progVars, errorMessage, startPc, clock, stream, conn,
                   nStarted, handlers, nRecv, isSecureContext, playLog, stopAt>>

\* The browser suspends the running context of the session in progress (the
\* state onmessage tests for).
Suspend(c) ==
    /\ ctxState[c] = "running"
    /\ c = mainAudioContextRef
    /\ conn[c] = "open"
    /\ ctxState' = [ctxState EXCEPT ![c] = "suspended"]
    /\ NotTeardown
    /\ UNCHANGED <<progVars, errorMessage, startPc, clock, stream, conn,
                   nStarted, handlers, nRecv, isSecureContext, playLog, stopAt>>

\* -------------------------------------------------------------- the history
Roles == {"Professor", "Student"}

\* The list App holds in memory: each entry of transcripts with its role.
Entries(ts, roles) ==
    [i \in 1..Len(ts) |->
        [text |-> ts[i].text, translation |-> ts[i].translation, role |-> roles[i]]]

\* A JSON text in which every entry has the role 'Professor'.
StringifyUntoggled(ts, roles) ==
    JsonText([i \in 1..Len(ts) |->
        [text |-> ts[i].text, translation |-> ts[i].translation,
         role |-> "Professor"]])

\* JSON.stringify(transcripts)
Stringify(ts, roles) == JsonText(Entries(ts, roles))

\* The initial value of the transcripts state: the item parsed when there is
\* a non-empty string, [] when there is none or JSON.parse throws.
LoadHistory(item) ==
    IF item.kind \in {"null", "empty"} THEN <<>>
    ELSE IF item.kind = "garbage" THEN <<>>
    ELSE item.entries

\* The persistence effect runs after a commit that changed transcripts.
PersistHistory ==
    /\ historyDirty
    /\ storedHistory' = Stringify(transcripts, entryRoles)
    /\ historyDirty' = FALSE
    /\ NotTeardown
    /\ UNCHANGED <<progVars, errorMessage, envVars, playLog, stopAt, capVars,
                   vizVars, pureVars, decodeFailures, convVars, activeRole,
                   activeRoleRef, sessionRole, entryRoles>>

\* toggleRole(id) for the id of entry i: that entry's role is flipped.
ToggleRole(i) ==
    /\ i \in 1..Len(transcripts)
    /\ entryRoles' = [entryRoles EXCEPT
                         ![i] = IF @ = "Professor" THEN "Student" ELSE "Professor"]
    /\ historyDirty' = TRUE
    /\ NotTeardown
    /\ UNCHANGED <<progVars, errorMessage, envVars, playLog, stopAt, capVars,
                   vizVars, pureVars, decodeFailures, convVars, activeRole,
                   activeRoleRef, sessionRole, storedHistory>>

\* clearHistory(): when window.confirm returns true the list is emptied and
\* the stored item removed; otherwise nothing is done.
ClearHistory(confirmed) ==
    /\ IF confirmed
       THEN /\ transcripts' = <<>>
            /\ entryRoles' = <<>>
            /\ storedHistory' = NoItem
            /\ historyDirty' = TRUE
       ELSE UNCHANGED <<transcripts, entryRoles, storedHistory, historyDirty>>
    /\ NotTeardown
    /\ UNCHANGED <<status, isRecording, mainAudioContextRef, streamRef, sessionRef,
                   analyserRef, nextStartTimeRef, sourcesRef, currentInputRef,
                   currentOutputRef, errorMessage, envVars, playLog, stopAt,
                   capVars, vizVars, pureVars, decodeFailures, convVars,
                   activeRole, activeRoleRef, sessionRole>>

\* A role button, enabled while not isRecording: setActiveRole(role), and the
\* effect that copies activeRole to activeRoleRef.
SetActiveRole(role) ==
    /\ ~isRecording
    /\ activeRole' = role
    /\ activeRoleRef' = role
    /\ NotTeardown
    /\ UNCHANGED <<progVars, errorMessage, envVars, playLog, stopAt, capVars,
                   vizVars, pureVars, decodeFailures, convVars, sessionRole,
                   entryRoles, storedHistory, historyDirty>>

\* ------------------------------------------------------------ the visualizer
Bins       == 1..NumBins
Magnitudes == {0, 1, 255}

\* barHeight = dataArray[i] / 2: a whole number of pixels and maybe a half.
BarHeight(magnitude) == [whole |-> magnitude \div 2, half |-> magnitude % 2 = 1]

\* The canvas after draw() has cleared it and filled one bar per bin of the
\* snapshot getByteFrequencyData wrote.
Frame(snapshot) == [drawn |-> TRUE, bars |-> [i \in Bins |-> BarHeight(snapshot[i])]]

\* An effect that goes on to draw without testing the 2d context.
LoopStartsUntested(props, ctx2d) ==
    props.isActive /\ props.analyser # 0

\* The effect goes on to draw(): lines 13 and 20 did not return.
LoopStarts(props, ctx2d) ==
    props.isActive /\ props.analyser # 0 /\ ctx2d

\* App renders and React commits: the visualizer gets analyserRef.current and
\* isRecording as props; when either changed, the effect's cleanup cancels
\* the frame requested last, and the effect runs again, calling draw() once
\* itself when it does not return early.
Render ==
    LET props == [analyser |-> analyserRef, isActive |-> isRecording] IN
    /\ props # vizProps
    /\ vizProps' = props
    /\ IF LoopStarts(props, has2d)
       THEN /\ nFrames < MaxFrames
            /\ framePending' = TRUE
            /\ \E snapshot \in [Bins -> Magnitudes] : canvas' = Frame(snapshot)
            /\ nFrames' = nFrames + 1
       ELSE /\ framePending' = FALSE
            /\ UNCHANGED <<canvas, nFrames>>
    /\ NotTeardown
    /\ UNCHANGED <<progVars, errorMessage, envVars, playLog, stopAt, has2d,
                   capVars, pureVars, decodeFailures>>
    /\ UNCHANGED <<uiVars, convVars>>

\* A frame that also resets the playback cursor.
DrawFrameResetsCursor ==
    /\ framePending
    /\ nFrames < MaxFrames
    /\ \E snapshot \in [Bins -> Magnitudes] : canvas' = Frame(snapshot)
    /\ nFrames' = nFrames + 1
    /\ nextStartTimeRef' = 0
    /\ NotTeardown
    /\ UNCHANGED <<status, isRecording, mainAudioContextRef, streamRef, sessionRef,
                   analyserRef, sourcesRef, currentInputRef, currentOutputRef,
                   transcripts, errorMessage, envVars, playLog, stopAt, vizProps,
                   framePending, has2d, capVars, pureVars, decodeFailures>>
    /\ UNCHANGED <<uiVars, convVars>>

\* The frame requested fires: draw() requests the next one, reads the
\* snapshot and redraws the canvas.
DrawFrame ==
    /\ framePending
    /\ nFrames < MaxFrames
    /\ \E snapshot \in [Bins -> Magnitudes] : canvas' = Frame(snapshot)
    /\ nFrames' = nFrames + 1
    /\ NotTeardown
    /\ UNCHANGED <<progVars, errorMessage, envVars, playLog, stopAt, vizProps,
                   framePending, has2d, capVars, pureVars, decodeFailures>>
    /\ UNCHANGED <<uiVars, convVars>>

\* ------------------------------------------------------------- audioService
\* The transport text is base64: a sequence of characters, each named by its
\* place 0..63 in the base64 alphabet, Pad being '='.
Pad == 64

\* The character at place j (from 1) of the encoding of b: the sextet of its
\* group of three bytes, or padding where the group has no byte for it.
EncodedChar(b, j) ==
    LET g    == (j - 1) \div 4
        pos  == (j - 1) % 4
        B(i) == IF 3 * g + i <= Len(b) THEN b[3 * g + i] ELSE 0
    IN  IF pos = 0 THEN B(1) \div 4
        ELSE IF pos = 1 THEN (B(1) % 4) * 16 + B(2) \div 16
        ELSE IF pos = 2
        THEN (IF 3 * g + 2 > Len(b) THEN Pad ELSE (B(2) % 16) * 4 + B(3) \div 64)
        ELSE (IF 3 * g + 3 > Len(b) THEN Pad ELSE B(3) % 64)

\* An encoder that drops the one or two bytes left over after the groups of three.
EncodeWholeGroups(b) ==
    [j \in 1..(4 * (Len(b) \div 3)) |-> EncodedChar(b, j)]

\* encodeAudio(bytes): three bytes make four characters; one or two bytes
\* left over make two or three characters and padding.
EncodeAudio(b) ==
    [j \in 1..(4 * ((Len(b) + 2) \div 3)) |-> EncodedChar(b, j)]

\* decodeAudio(text): four characters make three bytes, fewer before padding.
DecodeAudio(t) ==
    LET groups == Len(t) \div 4
        pads   == IF groups = 0 THEN 0
                  ELSE Cardinality({ k \in 3..4 : t[4 * (groups - 1) + k] = Pad })
        C(i)   == IF t[i] = Pad THEN 0 ELSE t[i]
    IN  [i \in 1..(3 * groups - pads) |->
            LET g   == (i - 1) \div 3
                pos == (i - 1) % 3
            IN  IF pos = 0 THEN (C(4 * g + 1) * 4 + C(4 * g + 2) \div 16) % 256
                ELSE IF pos = 1
                THEN ((C(4 * g + 2) % 16) * 16 + C(4 * g + 3) \div 4) % 256
                ELSE ((C(4 * g + 3) % 4) * 64 + C(4 * g + 4)) % 256]

\* A signed 16-bit little-endian sample over 32768, as a fraction.
Sample(lo, hi) ==
    LET u == lo + 256 * hi
    IN  [num |-> IF u >= 32768 THEN u - 65536 ELSE u, den |-> 32768]

\* A frame builder that tests only for whole 16-bit samples.
DecodeWholeSamples(data, sampleRate, channels) ==
    IF Len(data) % 2 # 0
    THEN Thrown("MalformedAudioError")
    ELSE LET frames == Len(data) \div (2 * channels)
         IN  Value([sampleRate |-> sampleRate,
                    planes |-> [c \in 1..channels |->
                        [f \in 1..frames |->
                            Sample(data[2 * ((f - 1) * channels + (c - 1)) + 1],
                                   data[2 * ((f - 1) * channels + (c - 1)) + 2])]]])

\* decodeAudioData(data, ctx, sampleRate, channels): interleaved 16-bit frames
\* to one plane of normalised samples per channel; a buffer that is not whole
\* frames is refused.
DecodeAudioData(data, sampleRate, channels) ==
    IF Len(data) % (2 * channels) # 0
    THEN Thrown("MalformedAudioError")
    ELSE LET frames == Len(data) \div (2 * channels)
         IN  Value([sampleRate |-> sampleRate,
                    planes |-> [c \in 1..channels |->
                        [f \in 1..frames |->
                            Sample(data[2 * ((f - 1) * channels + (c - 1)) + 1],
                                   data[2 * ((f - 1) * channels + (c - 1)) + 2])]]])

\* The sample rate and channel count onmessage declares for inbound audio.
InboundSampleRate == 24000
InboundChannels   == 1

\* Math.round of num / den, neither negative.
Round(num, den) == (2 * num + den) \div (2 * den)

\* A converter that keeps one sample in every floor(rin / rout).
DownsampleWholeRatio(x, rin, rout) ==
    Value([i \in 1..(Len(x) \div (rin \div rout)) |->
              [num |-> x[(i - 1) * (rin \div rout) + 1], den |-> 1]])

\* downsample(x, rin, rout): round(len * rout / rin) samples, the i-th (from
\* 0) interpolated linearly at input position i * rin / rout, or the last
\* input sample where there is none after it. Samples are fractions.
Downsample(x, rin, rout) ==
    Value([i \in 1..Round(Len(x) * rout, rin) |->
              LET i0   == ((i - 1) * rin) \div rout
                  frac == ((i - 1) * rin) % rout
              IN  IF i0 + 2 <= Len(x)
                  THEN [num |-> x[i0 + 1] * (rout - frac) + x[i0 + 2] * frac,
                        den |-> rout]
                  ELSE [num |-> x[i0 + 1], den |-> 1]])

\* The rate onaudioprocess converts to, and the size of the buffers it gets.
TargetRate == 16000
ChunkSize  == 4096

\* Rates an AudioContext runs at, the sample values the short buffers are
\* made of, and a buffer of the size the capture path converts.
InputRates   == {16000, 22050, 44100, 48000}
SampleValues == {-1, 0, 1}
CaptureChunk == [i \in 1..ChunkSize |-> (i % 3) - 1]
SampleBuffers == UNION { [1..n -> SampleValues] : n \in 0..MaxSamples }

\* downsample is called on the buffer, as onaudioprocess calls it.
DownsampleCall ==
    /\ ~downsampledData.called
    /\ downsampledData' = Downsample(inputData, inputRate, TargetRate)
    /\ UNCHANGED <<appVars, capVars, vizVars, pureVars, decodeFailures, uiVars,
                   inputData, inputRate>>

\* Byte values the longer buffers are made of, and every byte value once.
ByteSample == {0, 1, 127, 128, 255}
AllBytes   == [i \in 1..256 |-> i - 1]
Buffers    == UNION { [1..n -> ByteSample] : n \in 0..MaxBytes }

\* encodeAudio is called on the buffer.
EncodeCall ==
    /\ ~transportText.called
    /\ transportText' = Value(EncodeAudio(rawBytes))
    /\ UNCHANGED <<appVars, capVars, vizVars, decodeFailures,
                   rawBytes, numChannels, decodedBytes, audioBuffer>>
    /\ UNCHANGED <<uiVars, convVars>>

\* decodeAudio is called on the text encodeAudio returned.
DecodeCall ==
    /\ transportText.called
    /\ ~decodedBytes.called
    /\ decodedBytes' = Value(DecodeAudio(transportText.value))
    /\ UNCHANGED <<appVars, capVars, vizVars, decodeFailures,
                   rawBytes, numChannels, transportText, audioBuffer>>
    /\ UNCHANGED <<uiVars, convVars>>

\* decodeAudioData is called on the buffer, at the inbound sample rate.
DecodeAudioDataCall ==
    /\ ~audioBuffer.called
    /\ audioBuffer' = DecodeAudioData(rawBytes, InboundSampleRate, numChannels)
    /\ UNCHANGED <<appVars, capVars, vizVars, decodeFailures,
                   rawBytes, numChannels, transportText, decodedBytes>>
    /\ UNCHANGED <<uiVars, convVars>>

\* ---------------------------------------------------------- specifications
\* saveToHistory stamps the entry it appends with activeRoleRef.current.
StampRole ==
    entryRoles' = entryRoles \o
        [i \in 1..(Len(transcripts') - Len(transcripts)) |-> activeRoleRef]

\* The session config of a startSession call is built with the activeRole of
\* the render whose Connect button was clicked.
ConfigureRole ==
    sessionRole' = [k \in Sessions |->
                       IF nStarted < k /\ k <= nStarted' THEN activeRole
                       ELSE sessionRole[k]]

\* A new transcripts value makes the persistence effect due.
MarkHistory ==
    historyDirty' = (historyDirty \/ transcripts' # transcripts)

\* What a step of the session does beside the session's own state: it
\* leaves the capture pipeline, the visualizer and audioService alone; an
\* entry it appends is stamped and is to be persisted; a call it starts is
\* configured.
Aside ==
    /\ UNCHANGED <<capVars, vizVars, pureVars, decodeFailures, convVars>>
    /\ StampRole
    /\ ConfigureRole
    /\ MarkHistory
    /\ UNCHANGED <<activeRole, activeRoleRef, storedHistory>>

\* The session's life, of at most cap startSession calls: the buttons,
\* startSession's awaits, the connection.
LifecycleOf(cap) ==
    \/ /\ \/ StartSession(cap)
          \/ UserStop
          \/ \E k \in Sessions :
                \/ StartResumed(k)
                \/ MicGranted(k)
                \/ MicDenied(k)
                \/ ConnectFailed(k)
                \/ OnError(k)
                \/ OnClose(k)
                \/ CloseDone(k)
       /\ Aside
    \/ \E k \in Sessions : OnOpen(k)
    \/ \E k \in Sessions : ConnectResolved(k)

\* The session's life when Connect is clicked once.
Lifecycle == LifecycleOf(MaxSessions)

\* Playback: the clock, the awaits of onmessage that always return, 'ended'.
Playback ==
    /\ \/ \E k \in Sessions : Tick(k)
       \/ \E m \in MsgIds : DecodeDone(m) \/ CreateSourceThrows(m)
       \/ \E i \in 1..(MaxMsgs + 1) : Ended(i)
    /\ Aside

\* A context suspended by the browser, and onmessage's await of its resume.
Suspension ==
    /\ \/ \E k \in Sessions : Suspend(k)
       \/ \E m \in MsgIds : ResumeDone(m) \/ ResumeRejected(m)
    /\ Aside

\* Messages of the shapes in S arrive.
Arrivals(S) ==
    /\ \E k \in Sessions, msg \in S : Receive(k, msg)
    /\ Aside

\* A session of audio chunks and interruptions.
Next ==
    \/ Lifecycle
    \/ Playback
    \/ Suspension
    \/ Arrivals(AudioShapes)

Spec == Init /\ [][Next]_vars

\* A session of transcript fragments and turn ends.
NextText ==
    \/ Lifecycle
    \/ Playback
    \/ Suspension
    \/ Arrivals(TextShapes)

SpecText == Init /\ [][NextText]_vars

\* A session whose context the browser never suspends, in which the clock of
\* a rendering context advances, every await of onmessage returns, every
\* 'ended' event that is due is delivered and every close() completes.
NextLive ==
    \/ Lifecycle
    \/ Playback
    \/ Arrivals(AudioShapes)

SpecLive ==
    /\ Init /\ [][NextLive]_vars
    /\ \A k \in Sessions : WF_appVars(Tick(k)) /\ WF_appVars(CloseDone(k))
    /\ \A m \in MsgIds : WF_appVars(DecodeDone(m))
    /\ \A i \in 1..(MaxMsgs + 1) : WF_appVars(Ended(i))

\* A session in which some payloads are malformed: the playback runs without
\* suspensions, with decodes that fail.
NextDecode ==
    \/ Lifecycle
    \/ Playback
    \/ Arrivals(AudioShapes)
    \/ \E m \in MsgIds : DecodeFailed(m)

SpecDecode == Init /\ [][NextDecode]_vars

\* A session of turns: fragments, turn ends, interruptions, chunks.
NextTurn ==
    \/ Lifecycle
    \/ Playback
    \/ Arrivals(TurnShapes(nRecv + 1))

SpecTurn == Init /\ [][NextTurn]_vars

\* The n-th message of a run of turns in which payloads may be malformed:
\* also a chunk that ends the turn, and a chunk with an interruption.
MalformedShapes(n) ==
    TurnShapes(n) \cup { Msg(1, FALSE, TRUE, <<>>, << Fragments[n] >>),
                         Msg(1, TRUE, FALSE, <<>>, <<>>) }

\* A session of turns in which some payloads are malformed.
NextTurnDecode ==
    \/ Lifecycle
    \/ Playback
    \/ Arrivals(MalformedShapes(nRecv + 1))
    \/ \E m \in MsgIds : DecodeFailed(m)

SpecTurnDecode == Init /\ [][NextTurnDecode]_vars

\* The visualizer through the life of a session that plays chunks, on a page
\* whose canvas may have no 2d context.
InitViz ==
    /\ AppInit /\ CapInit /\ VizInit
    /\ PureInit(<<>>, 1)
    /\ has2d \in BOOLEAN
    /\ decodeFailures = <<>>
    /\ UiInit("Professor", NoItem)
    /\ ConvInit(<<>>, 16000)

NextViz ==
    \/ Lifecycle
    \/ Playback
    \/ (nRecv < VizMsgs /\ Arrivals({ Msg(1, FALSE, FALSE, <<>>, <<>>) }))
    \/ \E k \in Sessions : CaptureTick(k)
    \/ Render
    \/ DrawFrame

SpecViz == InitViz /\ [][NextViz]_vars

\* The capture pipeline through the life of the session.
NextCapture ==
    \/ Lifecycle
    \/ \E k \in Sessions : CaptureTick(k)

SpecCapture == Init /\ [][NextCapture]_vars

\* The codec on its own: a buffer is encoded, and the text decoded.
InitCodec ==
    /\ AppInit /\ CapInit /\ VizInit
    /\ has2d = TRUE
    /\ decodeFailures = <<>>
    /\ \E b \in Buffers \cup { << v >> : v \in 0..255 } \cup { AllBytes } :
          PureInit(b, InboundChannels)
    /\ UiInit("Professor", NoItem)
    /\ ConvInit(<<>>, 16000)

NextCodec == EncodeCall \/ DecodeCall

SpecCodec == InitCodec /\ [][NextCodec]_vars

\* The frame builder on its own: a buffer and a channel count are given to it.
InitPcm ==
    /\ AppInit /\ CapInit /\ VizInit
    /\ has2d = TRUE
    /\ decodeFailures = <<>>
    /\ \E b \in Buffers, c \in 1..MaxChannels : PureInit(b, c)
    /\ UiInit("Professor", NoItem)
    /\ ConvInit(<<>>, 16000)

NextPcm == DecodeAudioDataCall

SpecPcm == InitPcm /\ [][NextPcm]_vars

\* The messages of the history runs: a fragment, a turn end with a fragment.
HistoryShapes ==
    { Msg(0, FALSE, FALSE, <<"x">>, <<>>),
      Msg(0, FALSE, TRUE, <<>>, <<"y">>) }

\* The history through a session: turns and stops flush entries, the user
\* toggles roles and clears the list, the persistence effect runs; at
\* start-up the stored item is absent, empty, unparseable or an empty list.
InitHistory ==
    /\ AppInit /\ CapInit /\ VizInit
    /\ PureInit(<<>>, 1)
    /\ has2d = TRUE
    /\ decodeFailures = <<>>
    /\ ConvInit(<<>>, 16000)
    /\ \E item \in {NoItem, EmptyString, Unparseable, JsonText(<<>>)} :
          UiInit("Professor", item)

NextHistory ==
    \/ Lifecycle
    \/ Arrivals(HistoryShapes)
    \/ \E i \in 1..MaxMsgs : ToggleRole(i)
    \/ \E confirmed \in BOOLEAN : ClearHistory(confirmed)
    \/ PersistHistory

SpecHistory == InitHistory /\ [][NextHistory]_vars

\* The session's life when Connect is clicked again while an attempt is
\* under way (the button is rendered while not isRecording).
NextOverlap == LifecycleOf(MaxAttempts)

SpecOverlap == Init /\ [][NextOverlap]_vars

\* A session of turns around which the user changes the role selected.
NextRole ==
    \/ Lifecycle
    \/ Arrivals(HistoryShapes)
    \/ \E role \in Roles : SetActiveRole(role)

SpecRole == Init /\ [][NextRole]_vars

\* The converter on its own: a buffer captured at some rate is given to it.
InitConv ==
    /\ AppInit /\ CapInit /\ VizInit
    /\ PureInit(<<>>, 1)
    /\ has2d = TRUE
    /\ decodeFailures = <<>>
    /\ UiInit("Professor", NoItem)
    /\ \E x \in SampleBuffers \cup { CaptureChunk }, r \in InputRates : ConvInit(x, r)

NextConv == DownsampleCall

SpecConv == InitConv /\ [][NextConv]_vars

\* ------------------------------------------------------------------ claims
Teardowns == {"stop", "error", "close"}
Resets    == Teardowns \cup {"interrupt"}

\* C1: once an 'interrupted' message has been handled, no chunk of a message
\* received before it is playing or is started: the log holds no source that
\* an interruption superseded.
C1_NoSupersededChunk ==
    \A i \in Chunks : ~playLog[i].sup

C3_StartIsMaxOfCursorAndNow ==
    \A i \in Chunks :
        playLog[i].start = Max(playLog[i].cursor0, playLog[i].at)

\* C4: chunks are started in the order their messages were received: with no
\* interruption between them, the earlier message's chunk has the strictly
\* earlier start time.
C4_StartedInArrivalOrder ==
    \A i, j \in Chunks :
        /\ playLog[i].sess = playLog[j].sess
        /\ playLog[i].msg < playLog[j].msg
        /\ ~playLog[i].sup /\ ~playLog[j].sup
        => playLog[i].start < playLog[j].start

\* C5: after an 'interrupted' message is handled the set is empty and the
\* cursor is 0, and the next chunk started after it starts at the clock's
\* current time.
C5_InterruptThenStartAtNow ==
    /\ lastOp = "interrupt" => sourcesRef = {} /\ nextStartTimeRef = 0
    /\ Len(playLog) >= 2 /\ playLog[1].kind = "interrupt" /\ IsChunk(2)
       => playLog[2].start = playLog[2].at

\* C6: once stopSession has run, the cursor is 0 and the set is empty until a
\* session started after it schedules a chunk.
C6_CleanAfterStop ==
    stopAt # -1 => nextStartTimeRef = 0 /\ sourcesRef = {}

\* C7: onerror and onclose run the teardown: every source of the set is
\* stopped, the set is empty, the cursor is 0, the tracks of the stream held
\* are stopped, the context held is closed (close() was called) and
\* isRecording is false.
C7_ErrorOrCloseTearsDown ==
    [][ lastOp' \in {"error", "close"} =>
          /\ sourcesRef' = {}
          /\ nextStartTimeRef' = 0
          /\ \A i \in 1..Len(playLog') : ~Playing(playLog'[i])
          /\ streamRef # 0 => stream'[streamRef] = "stopped"
          /\ mainAudioContextRef # 0 =>
                 ctxState'[mainAudioContextRef] \in {"closing", "closed"}
          /\ streamRef' = 0 /\ mainAudioContextRef' = 0 /\ sessionRef' = 0
          /\ ~isRecording' ]_vars

\* onerror or onclose has just run for the first time, and stopped a source.
C7_Witness ==
    /\ lastOp \in {"error", "close"}
    /\ stopRuns = 1
    /\ playLog[1].nstopped > 0

\* C8: stopSession run right after stopSession changes nothing: status,
\* isRecording, the refs, the cursor, the set, the accumulators and the
\* history are as the first run left them.
C8_StopTwiceIsStopOnce ==
    [][ stopRuns >= 1 /\ stopRuns' = 2 => UNCHANGED progVars ]_vars

\* onclose ran right after a stopSession that flushed a fragment to the history.
C8_Witness ==
    /\ stopRuns = 2
    /\ lastOp = "close"
    /\ \E n \in 1..Len(transcripts) : transcripts[n].translation = <<>>

\* C9: the cursor never decreases in a step, unless the step is a reset.
C9_CursorMonotone ==
    [][ nextStartTimeRef' >= nextStartTimeRef \/ lastOp' \in Resets ]_vars

\* After an interruption the cursor was raised again, past a chunk.
C9_Witness ==
    /\ Len(playLog) >= 2
    /\ playLog[1].kind = "interrupt"
    /\ nextStartTimeRef > playLog[2].start

C12_MicFailureAbandons ==
    /\ [][ \A k \in Sessions :
              startPc[k] = "mic" /\ startPc'[k] = "done" =>
                 /\ status' = "error"
                 /\ errorMessage' # ""
                 /\ ctxState'[k] \in {"closing", "closed"}
                 /\ stream'[k] = "none" /\ conn'[k] = "none"
                 /\ isRecording' = isRecording
                 /\ isRecording' => \E j \in Sessions \ {k} : conn[j] = "open"
                 /\ nStarted' = nStarted ]_vars
    /\ [][ \A k \in Sessions :
              startPc[k] = "done" /\ conn[k] = "none" =>
                 /\ startPc'[k] = "done" /\ conn'[k] = "none"
                 /\ isRecording' /\ ~isRecording =>
                       \E j \in Sessions \ {k} : conn[j] # "open" /\ conn'[j] = "open" ]_vars

\* The microphone was refused and the attempt's context has closed.
C12_Witness ==
    /\ errorMessage = "mic"
    /\ status = "error"
    /\ \E k \in Sessions : startPc[k] = "done" /\ ctxState[k] = "closed"

\* The chunks started since the last failed decode are started at
\* max(cursor, now), now being the clock when they are started.
LaterChunksNormal ==
    decodeFailures # <<>> =>
        \A i \in Chunks :
            i > decodeFailures[Len(decodeFailures)] =>
                playLog[i].start = Max(playLog[i].cursor0, playLog[i].at)

\* C11: a failed decode drops its chunk: the step starts no source, adds none
\* to the set and leaves the cursor where it was; and the chunks started after
\* it are started by the normal rule, start = max(cursor, now).
C11_MalformedChunkDropped ==
    [][ /\ Len(decodeFailures') > Len(decodeFailures) =>
              UNCHANGED <<playLog, sourcesRef, nextStartTimeRef>>
        /\ LaterChunksNormal' ]_vars

\* C19: decodeAudio(encodeAudio(b)) = b for every byte buffer b, the empty one
\* and the one holding every byte value included.
C19_CodecRoundTrip ==
    decodedBytes.called => decodedBytes.value = rawBytes

\* The buffer of all 256 byte values, which leaves one byte over its groups of
\* three, has gone through the codec.
C19_Witness ==
    /\ decodedBytes.called
    /\ rawBytes = AllBytes
    /\ Len(transportText.value) = 344

\* C20: decodeAudioData refuses a buffer whose length is not a multiple of
\* 2 * channels with MalformedAudioError, and of a buffer of 2 * channels * k
\* bytes it returns k samples for each channel, at the declared rate (24000,
\* and one channel, on the inbound path).
C20_FramesOrMalformed ==
    audioBuffer.called =>
        IF Len(rawBytes) % (2 * numChannels) # 0
        THEN audioBuffer.error = "MalformedAudioError"
        ELSE /\ audioBuffer.error = ""
             /\ audioBuffer.value.sampleRate = 24000
             /\ Len(audioBuffer.value.planes) = numChannels
             /\ \A c \in 1..numChannels :
                    2 * numChannels * Len(audioBuffer.value.planes[c]) = Len(rawBytes)

\* Four bytes were built into two samples of the one inbound channel.
C20_Witness ==
    /\ audioBuffer.called
    /\ numChannels = 1
    /\ Len(rawBytes) = 4
    /\ audioBuffer.error = ""
    /\ Len(audioBuffer.value.planes[1]) = 2

\* C13: for each session, the messages handed to it, followed by those still
\* waiting for its session promise, are one per capture tick in tick order;
\* each has mimeType 'audio/pcm;rate=16000'; and none was handed over before
\* the connection was opened.
C13_OneMessagePerTick ==
    \A k \in Sessions :
        LET ticks == [i \in 1..Len(outbox[k]) |-> outbox[k][i].tick] \o pendingSends[k]
        IN  /\ ticks = [i \in 1..nTicks[k] |-> i]
            /\ \A i \in 1..Len(outbox[k]) :
                  /\ outbox[k][i].mimeType = "audio/pcm;rate=16000"
                  /\ outbox[k][i].conn \in {"open", "closing", "closed"}

\* Two ticks waited for the session promise and were sent when it resolved,
\* and a later tick was sent at once.
C13_Witness ==
    \E k \in Sessions :
        /\ Len(outbox[k]) = 3
        /\ outbox[k][1].deferred /\ outbox[k][2].deferred /\ ~outbox[k][3].deferred

\* The input text of the history, entry after entry, then of the accumulator.
RECURSIVE HistoryText(_)
HistoryText(ts) ==
    IF ts = <<>> THEN <<>> ELSE ts[1].text \o HistoryText(Tail(ts))

\* The fragments of t, blanks left out, are in the order their messages arrived.
InArrivalOrder(t) ==
    \A i, j \in 1..Len(t) :
        i < j /\ t[i] # " " /\ t[j] # " " =>
            \A p, q \in 1..Len(Fragments) :
                Fragments[p] = t[i] /\ Fragments[q] = t[j] => p < q

\* C14: a message with turnComplete, handled on arrival, appends the
\* accumulated input and output, its own fragments included, as one entry
\* when either is non-blank and as none when both are blank, and empties both
\* accumulators; a message with only 'interrupted' leaves accumulators and
\* history alone; and the fragments accumulated and flushed are in the order
\* their messages arrived.
C14_TurnCompleteFlushes ==
    [][ /\ \A k \in Sessions, msg \in TurnShapes(nRecv + 1) :
              Receive(k, msg) /\ msg.dur = 0 =>
                 LET input  == currentInputRef \o msg.inText
                     output == currentOutputRef \o msg.outText
                     blank  == /\ \A i \in 1..Len(input) : input[i] = " "
                               /\ \A i \in 1..Len(output) : output[i] = " "
                 IN  /\ msg.turnComplete =>
                          /\ currentInputRef' = <<>> /\ currentOutputRef' = <<>>
                          /\ transcripts' =
                                IF blank THEN transcripts
                                ELSE transcripts \o
                                     << [text |-> input, translation |-> output] >>
                     /\ ~msg.turnComplete =>
                          /\ currentInputRef' = input /\ currentOutputRef' = output
                          /\ transcripts' = transcripts
        /\ InArrivalOrder(HistoryText(transcripts') \o currentInputRef') ]_vars

\* ------------------------------------------------------------------ C15
\* C15: while the visualizer's tap is inactive or absent, the canvas shows
\* a frame drawn from the all-zero snapshot: what is drawn on it has every
\* bar at the height of magnitude 0, never a height computed from a
\* non-zero magnitude.  (A canvas nothing was drawn on yet is let pass.)
C15_IdleFrameIsFlat ==
    (~vizProps.isActive \/ vizProps.analyser = 0)
        => (canvas.drawn => \A i \in Bins : canvas.bars[i] = BarHeight(0))

\* ------------------------------------------------------------------ C16
\* C16: for as long as the visualizer is mounted on a canvas that has a 2d
\* context, a next frame is always pending, whatever the state of the
\* session.
C16_LoopAlwaysRuns ==
    has2d => framePending

\* ------------------------------------------------------------------ C17
\* C17: on a canvas without a 2d context the visualizer does nothing: no
\* frame is ever requested, nothing is ever drawn, and the render that runs
\* its effect leaves the application's state, the capture pipeline and the
\* error message as they were.
C17_NoContextNoDrawing ==
    [][ ~has2d =>
          /\ ~framePending' /\ ~canvas'.drawn /\ nFrames' = 0
          /\ (vizProps' # vizProps =>
                 UNCHANGED <<progVars, errorMessage, envVars, capVars>>) ]_vars

\* The effect ran with an active tap on a canvas without a 2d context, and
\* the capture pipeline of the session is installed.
C17_Witness ==
    /\ ~has2d
    /\ vizProps.isActive
    /\ vizProps.analyser # 0
    /\ scriptProcessor[vizProps.analyser]

\* ------------------------------------------------------------------ C18
\* C18: a step that draws a frame changes only the visualizer: the playback
\* cursor, the active set, the session, the capture pipeline and the
\* transcripts are as before, so what capture ticks and message handlers
\* can do next is as before.
C18_DrawTouchesOnlyCanvas ==
    [][ nFrames' # nFrames =>
          UNCHANGED <<progVars, errorMessage, envVars, capVars, playLog, stopAt>> ]_vars

\* Two frames were drawn while a chunk was playing and audio had been sent.
C18_Witness ==
    /\ nFrames = MaxFrames
    /\ sourcesRef # {}
    /\ nextStartTimeRef > 0
    /\ \E k \in Sessions : Len(outbox[k]) > 0

\* ------------------------------------------------------------------ C21
\* C21: the converter's output for N samples at rate Rin has
\* round(N * 16000 / Rin) samples, give or take one: its length is within 1
\* of a whole number that is within one half of N * 16000 / Rin.
C21_ResampledLength ==
    downsampledData.called =>
        \E r \in 0..Len(inputData) :
            /\ 2 * r * inputRate - 2 * Len(inputData) * TargetRate <= inputRate
            /\ 2 * Len(inputData) * TargetRate - 2 * r * inputRate <= inputRate
            /\ Len(downsampledData.value) - r \in {-1, 0, 1}

\* A capture buffer of 4096 samples at 44100 was converted to 1486 samples.
C21_Witness ==
    /\ downsampledData.called
    /\ Len(inputData) = 4096
    /\ inputRate = 44100
    /\ Len(downsampledData.value) = 1486

\* ------------------------------------------------------------------ C22
\* C22: once the persistence effect has run, the stored history loaded as
\* at start-up is the list in memory, entry by entry: text, translation and
\* role; after a confirmed clearHistory the list is empty and the stored
\* item loads as the empty list; an unparseable item loads as the empty list.
C22_StoredHistoryIsMemory ==
    [][ /\ ~historyDirty' =>
              LET loaded == LoadHistory(storedHistory') IN
              /\ Len(loaded) = Len(transcripts')
              /\ \A i \in 1..Len(loaded) :
                    /\ loaded[i].text = transcripts'[i].text
                    /\ loaded[i].translation = transcripts'[i].translation
                    /\ loaded[i].role = entryRoles'[i]
        /\ Len(transcripts') < Len(transcripts) =>
              transcripts' = <<>> /\ LoadHistory(storedHistory') = <<>>
        /\ storedHistory'.kind = "garbage" => LoadHistory(storedHistory') = <<>> ]_vars

\* An entry whose role was toggled to 'Student' is in memory and persisted.
C22_Witness ==
    /\ ~historyDirty
    /\ Len(transcripts) >= 1
    /\ entryRoles[1] = "Student"
    /\ storedHistory.kind = "json"

\* ------------------------------------------------------------------ C23
\* C23: whatever startSession calls are made, at most one microphone stream
\* is live, at most one audio context is open and at most one connection is
\* open or being opened; the live stream and the open context are the ones
\* the refs point to, and so is the open connection once its startSession
\* call has returned.
C23_OneSessionLive ==
    /\ Cardinality({ k \in Sessions : stream[k] = "live" }) <= 1
    /\ Cardinality({ k \in Sessions : ctxState[k] \in {"suspended", "running"} }) <= 1
    /\ Cardinality({ k \in Sessions : conn[k] \in {"connecting", "open"} }) <= 1
    /\ \A k \in Sessions :
          /\ stream[k] = "live" => streamRef = k
          /\ ctxState[k] \in {"suspended", "running"} => mainAudioContextRef = k
          /\ conn[k] = "open" /\ startPc[k] = "done" => sessionRef = k

\* ------------------------------------------------------------------ C25
\* C25: in every reachable state, isRecording is true only if status is
\* 'listening'.
C25_RecordingOnlyListening ==
    isRecording => status = "listening"

\* ------------------------------------------------------------------ C24
\* C24: whenever status is 'idle' or 'error' and no startSession call is in
\* progress, the stream, context and session refs are null, no microphone
\* stream is live, no audio context is open and no connection is open or
\* being opened.
C24_IdleReleasesAll ==
    (status \in {"idle", "error"} /\ \A k \in Sessions : startPc[k] \in {"none", "done"})
        => /\ streamRef = 0 /\ mainAudioContextRef = 0 /\ sessionRef = 0
           /\ \A k \in Sessions :
                 /\ stream[k] # "live"
                 /\ ctxState[k] \notin {"suspended", "running"}
                 /\ conn[k] \notin {"connecting", "open"}

\* ------------------------------------------------------------------ C26
\* C26: a run of stopSession appends the text accumulated since the last
\* turn end as one entry when it is non-blank and as none when it is blank,
\* and empties the accumulators; a run right after it appends nothing; and
\* once the session has ended (every startSession call has returned and no
\* connection is open or being opened) the accumulators are empty.
C26_PartialTextKeptOnce ==
    [][ /\ lastOp' \in Teardowns =>
              /\ transcripts' = IF Blank(currentInputRef) /\ Blank(currentOutputRef)
                                THEN transcripts
                                ELSE Append(transcripts,
                                            [text |-> currentInputRef,
                                             translation |-> currentOutputRef])
              /\ currentInputRef' = <<>> /\ currentOutputRef' = <<>>
        /\ ( /\ nStarted' > 0
             /\ \A k \in Sessions :
                   startPc'[k] \in {"none", "done"} /\ conn'[k] \notin {"connecting", "open"} )
           => currentInputRef' = <<>> /\ currentOutputRef' = <<>> ]_vars

\* ------------------------------------------------------------------ C27
\* C27: when the decode of a message's audio fails, the rest of the message
\* is handled all the same: its fragments are appended to the accumulators,
\* its turnComplete flushes them as an entry, and its interrupted flag
\* empties the active set and resets the cursor.
C27_FailedDecodeStillHandled ==
    [][ \A m \in MsgIds :
          ( /\ handlers[m].pc = "decode"
            /\ handlers'[m].pc = "none"
            /\ Len(decodeFailures') > Len(decodeFailures) )
          => LET msg    == handlers[m].msg
                 input  == currentInputRef \o msg.inText
                 output == currentOutputRef \o msg.outText
             IN  /\ msg.turnComplete =>
                       /\ currentInputRef' = <<>> /\ currentOutputRef' = <<>>
                       /\ transcripts' =
                             IF Blank(input) /\ Blank(output) THEN transcripts
                             ELSE Append(transcripts,
                                         [text |-> input, translation |-> output])
                 /\ ~msg.turnComplete =>
                       currentInputRef' = input /\ currentOutputRef' = output
                 /\ msg.interrupted => sourcesRef' = {} /\ nextStartTimeRef' = 0 ]_vars

\* ------------------------------------------------------------------ C28
\* C28: an entry appended to the history carries the role that the session
\* configuration of the startSession call made last was built with.
C28_EntryHasSessionRole ==
    [][ Len(entryRoles') > Len(entryRoles) =>
          /\ nStarted > 0
          /\ entryRoles'[Len(entryRoles')] = sessionRole[nStarted] ]_vars

\* ------------------------------------------------------------------ C29
\* C29: once stopSession has run after a startSession call, no further
\* audio message is given to that call's session: neither by a capture tick
\* that fires after the stop nor by a send that was waiting for the session
\* promise.
C29_NoSendAfterStop ==
    [][ \A k \in Sessions : stopAt >= k => outbox'[k] = outbox[k] ]_vars

\* ------------------------------------------------------------------ C30
\* C30: outside a secure context a startSession call changes the error
\* message and nothing else: status, isRecording, the refs, the cursor, the
\* active set and the transcripts stay as they were, and no audio context,
\* microphone request or connection comes into being.
C30_InsecureStartOnlyReports ==
    [][ (~isSecureContext /\ errorMessage' # errorMessage) =>
          /\ errorMessage' = "https"
          /\ UNCHANGED <<progVars, envVars, capVars, playLog, stopAt,
                         sessionRole, entryRoles>> ]_vars

\* Connect was clicked outside a secure context: the message is shown and the
\* application is as it was constructed.
C30_Witness ==
    /\ ~isSecureContext
    /\ errorMessage = "https"
    /\ status = "idle"
    /\ nStarted = 0

====
